---- MODULE Spec2Model ----
(***************************************************************************)
(* LogSentinel NestJS SDK: the in-memory BatchQueue, the BatchFlusher      *)
(* (timer tick + manual flush behind the flushInProgress guard), the       *)
(* HttpClient (sendLog retry loop, sendBatch) and the LogSentinelSDK       *)
(* install / shutdown orchestration.                                       *)
(*                                                                         *)
(* One action is one event-loop task of the Node.js process (a timer       *)
(* callback, an HTTP completion, a signal handler, a request handled by    *)
(* the interceptor) together with every promise continuation it runs       *)
(* before the next task can start.                                         *)
(***************************************************************************)
EXTENDS Integers, Sequences, FiniteSets, TLC

\* ---------------------------------------------------------------- bounds
MaxRecords == 3
MaxBatchSize == 3
MaxDrains == 3
MaxSignals == 2
\* start and stop calls made on a BatchFlusher driven on its own
MaxCalls == 4

\* ------------------------------------------------------ program constants
BATCH_SIZE == 5
MAX_RETRIES == 3
RETRY_DELAY_MS == 1000

\* HTTP statuses the collector answers with, and the failures of fetch
Statuses == {200, 204, 400, 404, 500, 503}
ErrorNames == {"AbortError", "TypeError"}
Outcomes ==
  {[kind |-> "response", status |-> s, name |-> "none"] : s \in Statuses}
    \cup {[kind |-> "error", status |-> 0, name |-> n] : n \in ErrorNames}
Signals == {"SIGINT", "SIGTERM", "beforeExit"}

\* process.env as install finds it: the API key and the base URL by the shape
\* of their text, LOGSENTINEL_DEBUG by whether it is 'true', and
\* LOGSENTINEL_BATCH_SIZE unset, not a number, or an integer
ApiKeyKinds == {"unset", "empty", "spaces", "set"}
BaseUrlKinds == {"unset", "empty", "spaces", "relative", "absolute"}
BatchNumbers == {-1, 0} \cup (1..MaxBatchSize)
EnvBatchValues ==
  {[kind |-> "unset", n |-> 0], [kind |-> "text", n |-> 0]}
    \cup {[kind |-> "int", n |-> n] : n \in BatchNumbers}
Envs ==
  [apiKey : ApiKeyKinds, baseUrl : BaseUrlKinds, debug : BOOLEAN,
   batchSize : EnvBatchValues]

\* the LogSentinelOptions given to the constructor; a field may be undefined
Undefined == [defined |-> FALSE, value |-> 0]
Defined(v) == [defined |-> TRUE, value |-> v]
OptionsSet ==
  [debug : {[defined |-> FALSE, value |-> FALSE]}
             \cup {[defined |-> TRUE, value |-> b] : b \in BOOLEAN},
   batchSize : {Undefined} \cup {Defined(n) : n \in 0..MaxBatchSize}]

VARIABLES
  \* BatchQueue
  queue, isShuttingDown,
  \* BatchFlusher
  isRunning, intervalHandle, timers, flushInProgress, batchSize,
  \* HttpClient
  debug, flights,
  \* LogSentinelSDK
  installed, isEnabled, sdkIsShuttingDown, sdPc, graceTimer, flushSettled,
  raceWinner, reported,
  \* history of the run
  nextId, accepted, batches, results, ticked, skipped, threw, nonOk,
  pendingAtShutdown, flushAtShutdown, settledAtShutdown, settledAtReport,
  \* a sendLog call observed on its own
  call, trace,
  \* handlers registered, the environment install saw, signals and shutdowns
  hooks, env, shutdownRuns, signalsSeen

queueVars == <<queue, isShuttingDown>>
flusherVars == <<isRunning, intervalHandle, timers, flushInProgress, batchSize>>
sdkVars == <<installed, isEnabled, sdkIsShuttingDown, sdPc, graceTimer,
             flushSettled, raceWinner, reported>>
histVars == <<nextId, accepted, batches, results, ticked, skipped, threw, nonOk,
              pendingAtShutdown, flushAtShutdown, settledAtShutdown,
              settledAtReport>>
callVars == <<call, trace>>
lifeVars == <<hooks, env, shutdownRuns, signalsSeen>>
vars == <<queueVars, flusherVars, debug, flights, sdkVars, histVars, callVars,
          lifeVars>>

\* ------------------------------------------------------------ BatchQueue
\* add that refuses records while a flush is in progress
addWhenIdle(q, shuttingDown, entry) ==
  IF shuttingDown \/ flushInProgress
    THEN [queue |-> q, ok |-> FALSE]
    ELSE [queue |-> Append(q, entry), ok |-> TRUE]

\* add that ignores the shutdown flag
addAlways(q, shuttingDown, entry) == [queue |-> Append(q, entry), ok |-> TRUE]

\* add that puts the entry at the head (unshift for push)
addFront(q, shuttingDown, entry) ==
  IF shuttingDown
    THEN [queue |-> q, ok |-> FALSE]
    ELSE [queue |-> <<entry>> \o q, ok |-> TRUE]

add(q, shuttingDown, entry) ==
  IF shuttingDown
    THEN [queue |-> q, ok |-> FALSE]
    ELSE [queue |-> Append(q, entry), ok |-> TRUE]

\* getAndClear that forgets to reset the array
getAndClearKeep(q) == [entries |-> q, queue |-> q]

getAndClear(q) == [entries |-> q, queue |-> <<>>]

beginShutdown(shuttingDown) == TRUE

size(q) == Len(q)

\* ------------------------------------------------------------ HttpClient
\* JSON.stringify(logEntry) throws on an entry with a circular reference
stringifyOk(entry) == ~entry.circular

responseOk(status) == status >= 200 /\ status <= 299

\* the 4xx test taken for the 5xx test
isClientErrorAs5xx(status) == status >= 500 /\ status < 600

isClientError(status) == status >= 400 /\ status < 500

\* a loop that runs one iteration too many
loopCondOneMore(attempt) == attempt <= MAX_RETRIES + 1

loopCond(attempt) == attempt <= MAX_RETRIES

isLastAttempt(attempt) == attempt = MAX_RETRIES

\* a doubling backoff in place of the linear one
backoffDoubling(attempt) == RETRY_DELAY_MS * (2 ^ attempt)

backoff(attempt) == RETRY_DELAY_MS * (attempt + 1)

NoEntry == [id |-> 0, circular |-> FALSE]

NewCall(entry) ==
  [entry |-> entry, attempt |-> 0, pc |-> "init", waits |-> <<>>,
   attempts |-> 0, ret |-> FALSE]

IdleCall == [NewCall(NoEntry) EXCEPT !.pc = "idle"]

return(c, value) == [c EXCEPT !.pc = "returned", !.ret = value]

RECURSIVE nextIteration(_)

\* the end of one loop iteration: the backoff wait, or straight on
afterTry(c) ==
  IF c.attempt < MAX_RETRIES
    THEN [c EXCEPT !.pc = "delay", !.waits = Append(@, backoff(c.attempt))]
    ELSE nextIteration(c)

\* the catch block of the retry loop
catchError(c) ==
  IF isLastAttempt(c.attempt) THEN return(c, FALSE) ELSE afterTry(c)

\* the try block up to the await of fetch
enterBody(c) ==
  LET c1 == [c EXCEPT !.attempts = @ + 1] IN
  IF stringifyOk(c.entry) THEN [c1 EXCEPT !.pc = "fetch"] ELSE catchError(c1)

nextIteration(c) ==
  LET c1 == [c EXCEPT !.attempt = @ + 1] IN
  IF loopCond(c1.attempt) THEN enterBody(c1) ELSE return(c1, FALSE)

\* sendLog from its call to its first await
sendLogStart(entry, dbg) ==
  IF dbg /\ ~stringifyOk(entry)
    THEN [NewCall(entry) EXCEPT !.pc = "thrown"]
    ELSE enterBody(NewCall(entry))

\* sendLog resumed by the settlement of fetch
onResponse(c, o) ==
  IF o.kind = "error" THEN catchError(c)
  ELSE IF responseOk(o.status) THEN return(c, TRUE)
  ELSE IF isClientError(o.status) THEN return(c, FALSE)
  ELSE afterTry(c)

\* sendLog resumed by the end of the backoff wait
onDelay(c) == nextIteration(c)

RECURSIVE runBatch(_, _)

\* sendBatch after the sendLog call of entry i has moved
afterCall(f, dbg) ==
  CASE f.call.pc = "thrown" -> [f EXCEPT !.status = "thrown"]
    [] f.call.pc = "returned" ->
         runBatch([f EXCEPT !.successCount = IF f.call.ret THEN @ + 1 ELSE @,
                            !.done = Append(@, [id |-> f.call.entry.id,
                                                ok |-> f.call.ret]),
                            !.i = @ + 1], dbg)
    [] OTHER -> [f EXCEPT !.status = "await"]

\* the for loop of sendBatch at entry i
runBatch(f, dbg) ==
  IF f.i > Len(f.entries)
    THEN [f EXCEPT !.status = "done", !.call = IdleCall]
    ELSE afterCall([f EXCEPT !.call = sendLogStart(f.entries[f.i], dbg)], dbg)

\* a sendBatch whose loop starts at the last entry
NewFlightFromLast(origin, entries) ==
  [origin |-> origin, entries |-> entries, i |-> Len(entries),
   successCount |-> 0, call |-> IdleCall, done |-> <<>>, status |-> "init"]

\* sendBatch at its call: the loop is at the first entry, nothing sent yet
NewFlight(origin, entries) ==
  [origin |-> origin, entries |-> entries, i |-> 1, successCount |-> 0,
   call |-> IdleCall, done |-> <<>>, status |-> "init"]

\* sendBatch from its call to its first await
sendBatchStart(origin, entries, dbg) ==
  IF dbg /\ Len(entries) > 0 /\ \E k \in 1..Len(entries) : ~stringifyOk(entries[k])
    THEN [NewFlight(origin, entries) EXCEPT !.status = "thrown"]
    ELSE runBatch(NewFlight(origin, entries), dbg)

\* ---------------------------------------------------------- BatchFlusher
\* start without its isRunning test
flusherStartAlways(st) ==
  [isRunning |-> TRUE, intervalHandle |-> TRUE, timers |-> st.timers + 1]

flusherStart(st) ==
  IF st.isRunning
    THEN st
    ELSE [isRunning |-> TRUE, intervalHandle |-> TRUE, timers |-> st.timers + 1]

\* stop that forgets clearInterval
flusherStopKeepTimer(st) ==
  [isRunning |-> FALSE, intervalHandle |-> FALSE, timers |-> st.timers]

flusherStop(st) ==
  [isRunning |-> FALSE, intervalHandle |-> FALSE,
   timers |-> IF st.intervalHandle THEN st.timers - 1 ELSE st.timers]

\* flush without its guard
flushBusyNever(inProgress) == FALSE

\* the guard at the head of flush
flushBusy(inProgress) == inProgress

\* a finally block that leaves the guard as it found it
afterFinallyKept(flag) == flag

\* the finally block of flush: this.flushInProgress = false
afterFinally(flag) == FALSE

\* the part of the state that flush reads and writes
FlushState ==
  [queue |-> queue, flushInProgress |-> flushInProgress, flights |-> flights,
   batches |-> batches, results |-> results, threw |-> threw,
   skipped |-> skipped, resolved |-> FALSE]

\* flush from its call to the await of sendBatch (or to its return)
flush(s, origin, dbg) ==
  IF flushBusy(s.flushInProgress)
    THEN [s EXCEPT !.skipped = TRUE, !.resolved = TRUE]
    ELSE
      LET gc == getAndClear(s.queue) IN
      IF Len(gc.entries) = 0
        THEN [s EXCEPT !.queue = gc.queue,
                       !.flushInProgress = afterFinally(TRUE),
                       !.resolved = TRUE]
        ELSE
          LET f == sendBatchStart(origin, gc.entries, dbg) IN
          [s EXCEPT !.queue = gc.queue,
                    !.batches = Append(@, gc.entries),
                    !.results = @ \o f.done,
                    !.threw = @ \/ f.status = "thrown",
                    !.flushInProgress = IF f.status = "await" THEN TRUE
                                        ELSE afterFinally(TRUE),
                    !.flights = IF f.status = "await" THEN Append(@, f) ELSE @,
                    !.resolved = (f.status # "await")]

\* the size test with a strict comparison
thresholdReachedStrict(queueSize, bs) == queueSize > bs

\* the size test of checkAndFlush
thresholdReached(queueSize, bs) == queueSize >= bs

checkAndFlush(s, bs, dbg) ==
  IF s.flushInProgress
    THEN [s EXCEPT !.skipped = TRUE]
    ELSE IF thresholdReached(size(s.queue), bs)
           THEN flush(s, "timer", dbg)
           ELSE s

\* a shutdown that resolves its flush without flushing
manualFlushSkipped(s, dbg) == [s EXCEPT !.resolved = TRUE]

manualFlush(s, dbg) == flush(s, "manual", dbg)

\* -------------------------------------------------------- LogSentinelSDK
\* Promise.all in place of Promise.race
raceSettledAll(flushDone, timerFired) == flushDone /\ timerFired

\* Promise.race([flushPromise, timeoutPromise])
raceSettled(flushDone, timerFired) == flushDone \/ timerFired

\* the lines of shutdown after the race: the unsent count
ReportShutdown(winner, q, res) ==
  /\ sdPc' = "done"
  /\ raceWinner' = winner
  /\ reported' = size(q)
  /\ settledAtReport' = Len(res)

RemoveAt(seq, i) == SubSeq(seq, 1, i - 1) \o SubSeq(seq, i + 1, Len(seq))

\* the re-entrancy guard of shutdownHandler, dropped
alreadyShuttingDownNever(flag) == FALSE

\* the re-entrancy guard of shutdownHandler
alreadyShuttingDown(flag) == flag

isActive == isEnabled /\ ~sdkIsShuttingDown

\* this.queue?.size() ?? 0 (a queue that was never created is empty here)
getQueueSize == size(queue)

\* ----------------------------------------------------------- environment
\* parseInt(process.env.LOGSENTINEL_BATCH_SIZE || String(BATCH_SIZE), 10)
parseBatchSize(v) ==
  CASE v.kind = "unset" -> [nan |-> FALSE, n |-> BATCH_SIZE]
    [] v.kind = "text" -> [nan |-> TRUE, n |-> 0]
    [] OTHER -> [nan |-> FALSE, n |-> v.n]

\* !apiKey || apiKey.trim() === ''
blankText(kind) == kind \in {"unset", "empty", "spaces"}

\* new URL(baseUrl) throws
urlThrows(kind) == kind = "relative"

NullConfig == [valid |-> FALSE, debug |-> FALSE, batchSize |-> 0]

\* loadEnvironmentConfig without the URL format check
loadEnvironmentConfigNoUrlCheck(e) ==
  LET p == parseBatchSize(e.batchSize) IN
  IF blankText(e.apiKey) THEN NullConfig
  ELSE IF blankText(e.baseUrl) THEN NullConfig
  ELSE [valid |-> TRUE, debug |-> e.debug,
        batchSize |-> IF p.nan \/ p.n < 1 THEN BATCH_SIZE ELSE p.n]

loadEnvironmentConfig(e) ==
  LET p == parseBatchSize(e.batchSize) IN
  IF blankText(e.apiKey) THEN NullConfig
  ELSE IF blankText(e.baseUrl) THEN NullConfig
  ELSE IF urlThrows(e.baseUrl) THEN NullConfig
  ELSE [valid |-> TRUE, debug |-> e.debug,
        batchSize |-> IF p.nan \/ p.n < 1 THEN BATCH_SIZE ELSE p.n]

\* option ?? fallback
coalesce(option, fallback) == IF option.defined THEN option.value ELSE fallback

NoEnv == [apiKey |-> "unset", baseUrl |-> "unset"]

\* ------------------------------------------------------------------ Init
Init ==
  /\ queue = <<>> /\ isShuttingDown = FALSE
  /\ isRunning = FALSE /\ intervalHandle = FALSE /\ timers = 0
  /\ flushInProgress = FALSE /\ batchSize = BATCH_SIZE
  /\ debug = FALSE /\ flights = <<>>
  /\ installed = FALSE /\ isEnabled = FALSE /\ sdkIsShuttingDown = FALSE
  /\ sdPc = "idle" /\ graceTimer = "unset" /\ flushSettled = FALSE
  /\ raceWinner = "none" /\ reported = 0
  /\ nextId = 1 /\ accepted = <<>> /\ batches = <<>> /\ results = <<>>
  /\ ticked = FALSE /\ skipped = FALSE /\ threw = FALSE /\ nonOk = FALSE
  /\ pendingAtShutdown = 0 /\ flushAtShutdown = FALSE
  /\ settledAtShutdown = 0 /\ settledAtReport = 0
  /\ call = IdleCall /\ trace = <<>>
  /\ hooks = FALSE /\ env = NoEnv /\ shutdownRuns = 0 /\ signalsSeen = 0

\* --------------------------------------------------------------- actions
\* LogSentinelSDK.install under environment e with constructor options opts
Install(e, opts) ==
  /\ ~installed
  /\ installed' = TRUE
  /\ env' = [apiKey |-> e.apiKey, baseUrl |-> e.baseUrl]
  /\ LET envConfig == loadEnvironmentConfig(e) IN
     IF envConfig.valid
       THEN LET st == flusherStart([isRunning |-> isRunning,
                                    intervalHandle |-> intervalHandle,
                                    timers |-> timers]) IN
            /\ debug' = coalesce(opts.debug, envConfig.debug)
            /\ batchSize' = coalesce(opts.batchSize, envConfig.batchSize)
            /\ isRunning' = st.isRunning
            /\ intervalHandle' = st.intervalHandle
            /\ timers' = st.timers
            /\ hooks' = TRUE
            /\ isEnabled' = TRUE
       ELSE UNCHANGED <<debug, batchSize, isRunning, intervalHandle, timers,
                        hooks, isEnabled>>
  /\ UNCHANGED <<queueVars, flushInProgress, flights, sdkIsShuttingDown, sdPc,
                 graceTimer, flushSettled, raceWinner, reported, histVars,
                 callVars, shutdownRuns, signalsSeen>>

\* the interceptor hands one captured entry to BatchQueue.add
Add(circular) ==
  /\ isEnabled
  /\ nextId <= MaxRecords
  /\ LET entry == [id |-> nextId, circular |-> circular]
         r == add(queue, isShuttingDown, entry) IN
     /\ queue' = r.queue
     /\ accepted' = IF r.ok THEN Append(accepted, entry) ELSE accepted
  /\ nextId' = nextId + 1
  /\ UNCHANGED <<isShuttingDown, flusherVars, debug, flights, sdkVars, batches,
                 results, ticked, skipped, threw, nonOk, pendingAtShutdown,
                 flushAtShutdown, settledAtShutdown, settledAtReport, callVars,
                 lifeVars>>

\* one firing of the setInterval callback
Tick ==
  /\ timers > 0
  /\ LET s == checkAndFlush(FlushState, batchSize, debug) IN
     /\ queue' = s.queue
     /\ flushInProgress' = s.flushInProgress
     /\ flights' = s.flights
     /\ batches' = s.batches
     /\ results' = s.results
     /\ threw' = s.threw
     /\ skipped' = s.skipped
  /\ ticked' = TRUE
  /\ UNCHANGED <<isShuttingDown, isRunning, intervalHandle, timers, batchSize,
                 debug, sdkVars, nextId, accepted, nonOk, pendingAtShutdown,
                 flushAtShutdown, settledAtShutdown, settledAtReport, callVars,
                 lifeVars>>

\* SIGINT, SIGTERM or beforeExit: shutdownHandler and shutdown up to the race
Signal(sig) ==
  /\ hooks /\ isEnabled
  /\ signalsSeen < MaxSignals
  /\ ~alreadyShuttingDown(sdkIsShuttingDown)
  /\ signalsSeen' = signalsSeen + 1
  /\ shutdownRuns' = shutdownRuns + 1
  /\ sdkIsShuttingDown' = TRUE
  /\ isShuttingDown' = beginShutdown(isShuttingDown)
  /\ LET st == flusherStop([isRunning |-> isRunning,
                            intervalHandle |-> intervalHandle,
                            timers |-> timers])
         s == manualFlush(FlushState, debug) IN
     /\ isRunning' = st.isRunning
     /\ intervalHandle' = st.intervalHandle
     /\ timers' = st.timers
     /\ queue' = s.queue
     /\ flushInProgress' = s.flushInProgress
     /\ flights' = s.flights
     /\ batches' = s.batches
     /\ results' = s.results
     /\ threw' = s.threw
     /\ skipped' = s.skipped
     /\ flushSettled' = s.resolved
     /\ graceTimer' = "armed"
     /\ IF raceSettled(s.resolved, FALSE)
          THEN ReportShutdown("flush", s.queue, s.results)
          ELSE /\ sdPc' = "racing"
               /\ UNCHANGED <<raceWinner, reported, settledAtReport>>
  /\ pendingAtShutdown' = size(queue)
  /\ flushAtShutdown' = flushInProgress
  /\ settledAtShutdown' = Len(results)
  /\ UNCHANGED <<batchSize, debug, installed, isEnabled, nextId, accepted,
                 ticked, nonOk, callVars, hooks, env>>

\* a signal that arrives once the shutdown guard is set
SignalAgain(sig) ==
  /\ hooks
  /\ signalsSeen < MaxSignals
  /\ alreadyShuttingDown(sdkIsShuttingDown)
  /\ signalsSeen' = signalsSeen + 1
  /\ UNCHANGED <<queueVars, flusherVars, debug, flights, sdkVars, histVars,
                 callVars, hooks, env, shutdownRuns>>

\* flight i resumes with its sendLog call moved to c
ResumeFlight(i, c) ==
  LET f == afterCall([flights[i] EXCEPT !.call = c], debug)
      res == results \o SubSeq(f.done, Len(flights[i].done) + 1, Len(f.done))
  IN
  /\ results' = res
  /\ IF f.status = "await"
       THEN /\ flights' = [flights EXCEPT ![i] = f]
            /\ UNCHANGED <<flushInProgress, threw, flushSettled, sdPc,
                           raceWinner, reported, settledAtReport>>
       ELSE /\ flights' = RemoveAt(flights, i)
            /\ flushInProgress' = afterFinally(TRUE)
            /\ threw' = (threw \/ f.status = "thrown")
            /\ IF f.origin = "manual"
                 THEN /\ flushSettled' = TRUE
                      /\ IF sdPc = "racing"
                              /\ raceSettled(TRUE, graceTimer = "fired")
                           THEN ReportShutdown("flush", queue, res)
                           ELSE UNCHANGED <<sdPc, raceWinner, reported,
                                            settledAtReport>>
                 ELSE UNCHANGED <<flushSettled, sdPc, raceWinner, reported,
                                  settledAtReport>>
  /\ UNCHANGED <<queueVars, isRunning, intervalHandle, timers, batchSize,
                 debug, installed, isEnabled, sdkIsShuttingDown, graceTimer,
                 nextId, accepted, batches, ticked, skipped,
                 pendingAtShutdown, flushAtShutdown, settledAtShutdown,
                 callVars, lifeVars>>

\* the fetch of flight i settles with outcome o
FetchSettles(i, o) ==
  /\ i \in 1..Len(flights)
  /\ flights[i].call.pc = "fetch"
  /\ nonOk' = (nonOk \/ o.kind = "error" \/ ~responseOk(o.status))
  /\ ResumeFlight(i, onResponse(flights[i].call, o))

\* the backoff wait of flight i ends
DelayElapses(i) ==
  /\ i \in 1..Len(flights)
  /\ flights[i].call.pc = "delay"
  /\ UNCHANGED nonOk
  /\ ResumeFlight(i, onDelay(flights[i].call))

\* the grace-period timer of shutdown fires while the race is open
GraceTimeout ==
  /\ sdPc = "racing"
  /\ graceTimer = "armed"
  /\ graceTimer' = "fired"
  /\ IF raceSettled(flushSettled, TRUE)
       THEN ReportShutdown("grace", queue, results)
       ELSE UNCHANGED <<sdPc, raceWinner, reported, settledAtReport>>
  /\ UNCHANGED <<queueVars, flusherVars, debug, flights, installed, isEnabled,
                 sdkIsShuttingDown, flushSettled, nextId, accepted, batches,
                 results, ticked, skipped, threw, nonOk, pendingAtShutdown,
                 flushAtShutdown, settledAtShutdown, callVars, lifeVars>>

Next ==
  \/ ~installed /\ \E e \in Envs, opts \in OptionsSet : Install(e, opts)
  \/ \E circular \in BOOLEAN : Add(circular)
  \/ Tick
  \/ \E sig \in Signals : Signal(sig)
  \/ \E sig \in Signals : SignalAgain(sig)
  \/ \E i \in 1..MaxRecords, o \in Outcomes : FetchSettles(i, o)
  \/ \E i \in 1..MaxRecords : DelayElapses(i)
  \/ GraceTimeout

Spec == Init /\ [][Next]_vars

\* the timers of the event loop fire: the grace timer is never starved
FairSpec == Spec /\ WF_vars(GraceTimeout)

\* the interval timer keeps firing and the transport keeps answering: every
\* fetch settles and every backoff wait ends
ResponsiveSpec ==
  /\ Spec
  /\ WF_vars(Tick)
  /\ WF_vars(\E i \in 1..MaxRecords, o \in Outcomes : FetchSettles(i, o))
  /\ WF_vars(\E i \in 1..MaxRecords : DelayElapses(i))

\* ------------------------------------------- a sendLog call on its own
Entries == {[id |-> 1, circular |-> b] : b \in BOOLEAN}

InitSendLog ==
  /\ queue = <<>> /\ isShuttingDown = FALSE
  /\ isRunning = FALSE /\ intervalHandle = FALSE /\ timers = 0
  /\ flushInProgress = FALSE /\ batchSize = BATCH_SIZE
  /\ debug \in BOOLEAN /\ flights = <<>>
  /\ installed = FALSE /\ isEnabled = FALSE /\ sdkIsShuttingDown = FALSE
  /\ sdPc = "idle" /\ graceTimer = "unset" /\ flushSettled = FALSE
  /\ raceWinner = "none" /\ reported = 0
  /\ nextId = 1 /\ accepted = <<>> /\ batches = <<>> /\ results = <<>>
  /\ ticked = FALSE /\ skipped = FALSE /\ threw = FALSE /\ nonOk = FALSE
  /\ pendingAtShutdown = 0 /\ flushAtShutdown = FALSE
  /\ settledAtShutdown = 0 /\ settledAtReport = 0
  /\ \E e \in Entries : call = sendLogStart(e, debug)
  /\ trace = <<>>
  /\ hooks = FALSE /\ env = NoEnv /\ shutdownRuns = 0 /\ signalsSeen = 0

\* the awaited fetch of the call settles with outcome o
CallFetchSettles(o) ==
  /\ call.pc = "fetch"
  /\ call' = onResponse(call, o)
  /\ trace' = Append(trace, o)
  /\ UNCHANGED <<queueVars, flusherVars, debug, flights, sdkVars, histVars,
                 lifeVars>>

\* the awaited backoff wait of the call ends
CallDelayElapses ==
  /\ call.pc = "delay"
  /\ call' = onDelay(call)
  /\ UNCHANGED <<trace, queueVars, flusherVars, debug, flights, sdkVars,
                 histVars, lifeVars>>

NextSendLog ==
  \/ \E o \in Outcomes : CallFetchSettles(o)
  \/ CallDelayElapses

SpecSendLog == InitSendLog /\ [][NextSendLog]_vars

\* ------------------------------------------- a BatchQueue on its own
InitQueue == Init

\* add called on the queue
QueueAdd(circular) ==
  /\ nextId <= MaxRecords
  /\ LET entry == [id |-> nextId, circular |-> circular]
         r == add(queue, isShuttingDown, entry) IN
     /\ queue' = r.queue
     /\ accepted' = IF r.ok THEN Append(accepted, entry) ELSE accepted
  /\ nextId' = nextId + 1
  /\ UNCHANGED <<isShuttingDown, flusherVars, debug, flights, sdkVars, batches,
                 results, ticked, skipped, threw, nonOk, pendingAtShutdown,
                 flushAtShutdown, settledAtShutdown, settledAtReport, callVars,
                 lifeVars>>

\* getAndClear called on the queue; batches records what it returned
QueueGetAndClear ==
  /\ Len(batches) < MaxDrains
  /\ LET gc == getAndClear(queue) IN
     /\ queue' = gc.queue
     /\ batches' = Append(batches, gc.entries)
  /\ UNCHANGED <<isShuttingDown, flusherVars, debug, flights, sdkVars, nextId,
                 accepted, results, ticked, skipped, threw, nonOk,
                 pendingAtShutdown, flushAtShutdown, settledAtShutdown,
                 settledAtReport, callVars, lifeVars>>

\* beginShutdown called on the queue
QueueBeginShutdown ==
  /\ isShuttingDown' = beginShutdown(isShuttingDown)
  /\ UNCHANGED <<queue, flusherVars, debug, flights, sdkVars, histVars,
                 callVars, lifeVars>>

NextQueue ==
  \/ \E circular \in BOOLEAN : QueueAdd(circular)
  \/ QueueGetAndClear
  \/ QueueBeginShutdown

SpecQueue == InitQueue /\ [][NextQueue]_vars

\* ------------------------------------------ a BatchFlusher on its own
\* a flusher just constructed over an empty queue; trace lists the calls made
InitFlusher == Init

\* start called on the flusher
CallStart ==
  /\ Len(trace) < MaxCalls
  /\ LET st == flusherStart([isRunning |-> isRunning,
                             intervalHandle |-> intervalHandle,
                             timers |-> timers]) IN
     /\ isRunning' = st.isRunning
     /\ intervalHandle' = st.intervalHandle
     /\ timers' = st.timers
  /\ trace' = Append(trace, "start")
  /\ UNCHANGED <<queueVars, flushInProgress, batchSize, debug, flights,
                 sdkVars, histVars, call, lifeVars>>

\* stop called on the flusher
CallStop ==
  /\ Len(trace) < MaxCalls
  /\ LET st == flusherStop([isRunning |-> isRunning,
                            intervalHandle |-> intervalHandle,
                            timers |-> timers]) IN
     /\ isRunning' = st.isRunning
     /\ intervalHandle' = st.intervalHandle
     /\ timers' = st.timers
  /\ trace' = Append(trace, "stop")
  /\ UNCHANGED <<queueVars, flushInProgress, batchSize, debug, flights,
                 sdkVars, histVars, call, lifeVars>>

NextFlusher ==
  \/ CallStart
  \/ CallStop
  \/ Tick
  \/ \E circular \in BOOLEAN : QueueAdd(circular)

SpecFlusher == InitFlusher /\ [][NextFlusher]_vars

\* ================================================================ claims
RECURSIVE Flatten(_)
Flatten(ss) == IF ss = <<>> THEN <<>> ELSE Head(ss) \o Flatten(Tail(ss))

NoDuplicates(seq) ==
  \A a, b \in 1..Len(seq) : a # b => seq[a] # seq[b]

DeliveredCount(id) ==
  Cardinality({k \in 1..Len(results) : results[k].id = id /\ results[k].ok})

\* the entries that were in the buffer when shutdown began
PendingEntries ==
  SubSeq(Flatten(batches) \o queue,
         Len(accepted) - pendingAtShutdown + 1, Len(accepted))

Is2xx(o) == o.kind = "response" /\ o.status \in 200..299
Is4xx(o) == o.kind = "response" /\ o.status \in 400..499
IsTransient(o) == o.kind = "error" \/ (o.kind = "response" /\ o.status \in 500..599)

\* C1: at most one flush critical section (one drained batch being sent by
\* sendBatch) is active at any time, whatever the interleaving of timer
\* ticks, the manual flush of shutdown and enqueues.
C1_MutualExclusion == Len(flights) <= 1

\* a trigger met the guard while a flush was in flight
C1_Witness == Len(flights) = 1 /\ flushInProgress /\ skipped

\* C2: the drained batches, concatenated in drain order and followed by the
\* current buffer, are exactly the accepted records in acceptance order, and
\* no record occurs twice in them.
C2_NoDupNoLoss ==
  /\ Flatten(batches) \o queue = accepted
  /\ NoDuplicates(Flatten(batches) \o queue)

\* two batches were drained and a later record is still buffered
C2_Witness == Len(batches) >= 2 /\ queue # <<>>

C4_ShutdownFlushesAll ==
  (sdPc = "done" /\ raceWinner = "flush")
    => (queue = <<>> /\ Flatten(batches) = accepted)

\* C5: shutdown with n buffered records below the threshold, no flush in
\* progress, and a transport that completes nothing before the grace timer
\* wins, reports n unsent records.
C5_UnsentCount ==
  (/\ sdPc = "done" /\ raceWinner = "grace"
   /\ ~flushAtShutdown
   /\ pendingAtShutdown > 0 /\ pendingAtShutdown < batchSize
   /\ settledAtReport = settledAtShutdown)
    => reported = pendingAtShutdown

\* C6: a shutdown that is waiting for its race completes: at once when the
\* manual flush completes or when the grace timer fires, hence eventually
\* even if the transport never answers; the grace timer leaves the stalled
\* flush in progress.
C6_ShutdownTerminates ==
  /\ (sdPc = "racing") ~> (sdPc = "done")
  /\ [][(sdPc = "racing" /\ graceTimer = "armed" /\ graceTimer' = "fired")
          => (/\ sdPc' = "done"
              /\ flights' = flights
              /\ flushInProgress' = flushInProgress)]_vars
  /\ [][(sdPc = "racing" /\ ~flushSettled /\ flushSettled')
          => sdPc' = "done"]_vars

\* shutdown is over by the grace timer and the manual flush is still in flight
C6_Witness ==
  /\ sdPc = "done" /\ raceWinner = "grace"
  /\ flushInProgress
  /\ Len(flights) = 1 /\ flights[1].origin = "manual"

\* C7: shutdown with records buffered below the threshold, no flush in
\* progress and a transport that answers 2xx to every attempt before the
\* grace timer: every buffered record is delivered exactly once and the
\* reported unsent count is 0.
C7_SuccessfulShutdown ==
  (/\ sdPc = "done" /\ raceWinner = "flush"
   /\ ~flushAtShutdown
   /\ pendingAtShutdown > 0 /\ pendingAtShutdown < batchSize
   /\ ~nonOk
   /\ \A k \in 1..Len(accepted) : ~accepted[k].circular)
    => (/\ reported = 0
        /\ \A k \in 1..Len(PendingEntries) :
             DeliveredCount(PendingEntries[k].id) = 1)

\* a shutdown flush delivered two buffered records and reported 0
C7_Witness ==
  /\ sdPc = "done" /\ raceWinner = "flush"
  /\ ~flushAtShutdown
  /\ pendingAtShutdown = 2 /\ pendingAtShutdown < batchSize
  /\ ~nonOk
  /\ \A k \in 1..Len(accepted) : ~accepted[k].circular
  /\ reported = 0
  /\ settledAtReport = settledAtShutdown + pendingAtShutdown

\* C8: neither sendLog nor sendBatch ever throws (rejects) to its caller.
C8_TransportTotal == ~threw

C10_NoRetryOn4xx ==
  \A k \in 1..Len(trace) :
    Is4xx(trace[k])
      => (/\ k = Len(trace)
          /\ call.pc = "returned" /\ ~call.ret
          /\ call.attempts = k
          /\ Len(call.waits) = k - 1)

\* a 404 on the first attempt: one attempt, no wait
C10_Witness ==
  /\ Len(trace) = 1 /\ trace[1].status = 404
  /\ call.pc = "returned" /\ ~call.ret
  /\ call.attempts = 1 /\ call.waits = <<>>

\* C11: sendLog makes at most 4 attempts for one record; when 4 attempts in a
\* row fail transiently it has returned false after exactly 4 attempts and
\* exactly 3 waits, the last attempt being followed by no wait.
C11_BoundedRetries ==
  /\ call.attempts <= 4
  /\ Len(trace) <= 4
  /\ Len(call.waits) <= 3
  /\ (Len(trace) = 4 /\ \A j \in 1..4 : IsTransient(trace[j]))
       => (/\ call.pc = "returned" /\ ~call.ret
           /\ call.attempts = 4
           /\ call.waits = <<1000, 2000, 3000>>)

\* four transient failures of mixed kinds, the last one a 5xx
C11_Witness ==
  /\ Len(trace) = 4
  /\ trace[1].name = "TypeError" /\ trace[2].status = 500
  /\ trace[3].name = "AbortError" /\ trace[4].status = 503
  /\ call.pc = "returned" /\ ~call.ret

\* C12: a timer tick or the manual flush of shutdown that finds
\* flushInProgress true leaves the buffer and the sent batches as they are,
\* starts no sendBatch, leaves flushInProgress true, and (for the manual
\* flush) returns at once, so that shutdown does not wait for the flush in
\* progress.
C12_TriggerWhileBusy ==
  /\ [][(flushInProgress /\ Tick)
          => (/\ queue' = queue /\ batches' = batches
              /\ flights' = flights /\ flushInProgress')]_vars
  /\ [][(flushInProgress /\ ~sdkIsShuttingDown /\ sdkIsShuttingDown')
          => (/\ queue' = queue /\ batches' = batches
              /\ flights' = flights /\ flushInProgress'
              /\ flushSettled' /\ sdPc' = "done")]_vars

\* shutdown's manual flush met a timer flush in progress, records buffered
C12_Witness ==
  /\ sdkIsShuttingDown /\ flushAtShutdown
  /\ flushInProgress /\ skipped
  /\ queue # <<>>
  /\ Len(flights) = 1 /\ flights[1].origin = "timer"

\* C13: once beginShutdown has been called, every add returns false (the
\* record is not accepted) and leaves the buffer as it was; the flag never
\* goes back, and beginShutdown itself leaves the buffered records alone.
C13_AddAfterShutdown ==
  /\ [][(isShuttingDown /\ nextId' # nextId)
          => (queue' = queue /\ accepted' = accepted)]_vars
  /\ [][isShuttingDown => isShuttingDown']_vars
  /\ [][(~isShuttingDown /\ isShuttingDown') => queue' = queue]_vars

\* an add was refused after beginShutdown while records are still buffered
C13_Witness ==
  /\ isShuttingDown
  /\ queue # <<>>
  /\ nextId - 1 > Len(accepted)

\* C14: getAndClear returns exactly the records added since the previous
\* drain, in call order, and size() is 0 right after it.
C14_DrainInOrder ==
  [][(Len(batches') = Len(batches) + 1)
       => (/\ batches'[Len(batches')] =
                SubSeq(accepted, Len(Flatten(batches)) + 1, Len(accepted))
           /\ size(queue') = 0)]_vars

\* three adds, then one getAndClear that returned all three
C14_Witness ==
  /\ Len(batches) = 1 /\ Len(batches[1]) = 3
  /\ batches[1] = accepted
  /\ size(queue) = 0

\* C15: the shutdown sequence (beginShutdown, stop, the manualFlush race, the
\* unsent report) is started at most once however many SIGINT, SIGTERM and
\* beforeExit events arrive; it has been started exactly once whenever the
\* SDK's isShuttingDown flag is set, and an event that arrives while the flag
\* is set changes nothing.
C15_ShutdownOnce ==
  /\ [](shutdownRuns <= 1 /\ (sdkIsShuttingDown <=> shutdownRuns = 1))
  /\ [][(sdkIsShuttingDown /\ signalsSeen' # signalsSeen)
          => UNCHANGED <<queueVars, flusherVars, debug, flights, sdkVars,
                         histVars, callVars, hooks, env, shutdownRuns>>]_vars

\* a second event arrived while the first shutdown was awaiting its race
C15_Witness ==
  /\ signalsSeen >= 2
  /\ shutdownRuns = 1
  /\ sdPc = "racing"
  /\ flights # <<>>

\* C16: once no sendBatch is running, every record of every drained batch
\* that can be encoded has been handed to sendLog and has an outcome, the
\* outcomes are in batch order, and no record that cannot be encoded has the
\* outcome delivered. Stated for debug on and off alike.
C16_SerializationIsolated ==
  flights = <<>> =>
    LET sent == Flatten(batches) IN
    /\ \A k \in 1..Len(sent) :
         IF sent[k].circular
           THEN \A j \in 1..Len(results) :
                  results[j].id = sent[k].id => ~results[j].ok
           ELSE \E j \in 1..Len(results) : results[j].id = sent[k].id
    /\ \A i, j \in 1..Len(results) : i < j => results[i].id < results[j].id

\* the records for which a flush has an HTTP request under way
Requested(s) ==
  {s.flights[i].call.entry.id :
     i \in {j \in 1..Len(s.flights) : s.flights[j].call.pc = "fetch"}}

\* C17: from any state, the timer tick's check with debug on and the same
\* check with debug off leave the same buffer and put the same HTTP request
\* under way.
C17_DebugIrrelevant ==
  LET on == checkAndFlush(FlushState, batchSize, TRUE)
      off == checkAndFlush(FlushState, batchSize, FALSE) IN
  /\ on.queue = off.queue
  /\ Requested(on) = Requested(off)

\* C18: after an install that found no valid configuration (API key or base
\* URL unset, empty, blank, or the URL not absolute) nothing of the SDK is
\* on: no record is accepted, no flusher timer runs, no termination handler
\* is registered, no shutdown ever starts, isActive() is false and
\* getQueueSize() is 0.
C18_InvalidConfigDisables ==
  (installed /\ (blankText(env.apiKey) \/ env.baseUrl # "absolute"))
    => (/\ ~isEnabled /\ ~isActive
        /\ ~hooks /\ shutdownRuns = 0 /\ signalsSeen = 0
        /\ timers = 0 /\ ~isRunning /\ ~intervalHandle
        /\ queue = <<>> /\ accepted = <<>> /\ nextId = 1
        /\ getQueueSize = 0)

\* installed with an API key and a base URL that is not an absolute URL
C18_Witness ==
  /\ installed /\ ~isEnabled
  /\ env.apiKey = "set" /\ env.baseUrl = "relative"

\* C19: whatever LOGSENTINEL_BATCH_SIZE and options.batchSize were, the
\* threshold handed to the BatchFlusher of an enabled SDK is at least 1.
C19_PositiveBatchSize == isEnabled => batchSize >= 1

\* C20: flushInProgress is true exactly while a sendBatch of flush is
\* running: it is set when a flush starts its sendBatch and is false again as
\* soon as that sendBatch has returned or thrown, and after the empty-batch
\* return, so the next trigger finds the guard open.
C20_GuardReleased == flushInProgress <=> flights # <<>>

\* a flush ended by an exception, and a later flush ran to its end
C20_Witness ==
  /\ threw
  /\ ~flushInProgress /\ flights = <<>>
  /\ Len(batches) >= 2
  /\ results # <<>>

\* C21: no record of a drained batch is in the buffer again, and a step of
\* a running sendBatch (a response, an error, the end of a wait, its return
\* or its exception) leaves the buffer as it is.
C21_NeverRequeued ==
  /\ [](\A k \in 1..Len(queue) : \A j \in 1..Len(Flatten(batches)) :
          queue[k].id # Flatten(batches)[j].id)
  /\ [][(flights' # flights /\ batches' = batches) => queue' = queue]_vars

\* one batch ended by an exception, another by a failure, a record buffered
C21_Witness ==
  /\ threw /\ nonOk
  /\ flights = <<>>
  /\ Len(batches) >= 2
  /\ queue # <<>>

\* C22: a running sendBatch is always that of the batch drained last, so no
\* attempt for an earlier batch comes after one for a later batch; it has
\* one sendLog call in progress, for the record at its loop position, and
\* all records before that position have their final outcome, in batch
\* order; final outcomes are recorded in enqueue order.
C22_DeliveryOrder ==
  /\ \A n \in 1..Len(flights) :
       LET f == flights[n] IN
       /\ f.entries = batches[Len(batches)]
       /\ f.i \in 1..Len(f.entries)
       /\ f.call.entry = f.entries[f.i]
       /\ Len(f.done) = f.i - 1
       /\ \A k \in 1..Len(f.done) : f.done[k].id = f.entries[k].id
  /\ \A a, b \in 1..Len(results) : a < b => results[a].id < results[b].id

\* the second batch is at a retry of its second record, the first record of
\* each batch has its outcome
C22_Witness ==
  /\ Len(batches) = 2
  /\ Len(flights) = 1
  /\ flights[1].i = 2 /\ flights[1].call.attempt >= 1
  /\ flights[1].call.pc = "fetch"
  /\ Len(results) = 2

\* C23: while the buffer is not shutting down, add can always be called,
\* also while a flush is in progress, and a call of add returns true, puts
\* exactly its record at the tail of the buffer and changes nothing else: no
\* drain, no send, flushInProgress, the timer and the SDK as they were.
C23_AddNeverBlocked ==
  /\ []((isEnabled /\ ~isShuttingDown /\ nextId <= MaxRecords)
          => ENABLED Add(FALSE))
  /\ [][(nextId' # nextId /\ ~isShuttingDown)
          => (/\ Len(queue') = Len(queue) + 1
              /\ SubSeq(queue', 1, Len(queue)) = queue
              /\ queue'[Len(queue')].id = nextId
              /\ accepted' = Append(accepted, queue'[Len(queue')])
              /\ UNCHANGED <<isShuttingDown, flusherVars, debug, flights,
                             sdkVars, batches, results, lifeVars>>)]_vars

\* records were added while a flush was waiting to retry
C23_Witness ==
  /\ ~isShuttingDown
  /\ flushInProgress
  /\ Len(flights) = 1 /\ flights[1].call.pc = "delay"
  /\ Len(queue) = 2

\* C24: the step that begins shutdown leaves the buffer marked shuttingDown
\* and the periodic timer stopped, and its manual flush, when it drains,
\* takes exactly the records buffered at that moment; from then on the
\* buffer stays marked, no timer exists, no tick can run the size-check, no
\* record is accepted and the buffer never grows.
C24_ShutdownOrder ==
  /\ [][(~sdkIsShuttingDown /\ sdkIsShuttingDown')
          => (/\ isShuttingDown' /\ timers' = 0 /\ ~isRunning'
              /\ batches' # batches
                   => (batches' = Append(batches, queue) /\ queue' = <<>>))]_vars
  /\ [](sdkIsShuttingDown
          => (isShuttingDown /\ timers = 0 /\ ~isRunning /\ ~ENABLED Tick))
  /\ [][sdkIsShuttingDown
          => (Len(queue') <= Len(queue) /\ accepted' = accepted)]_vars

\* the final flush drained the buffer, and an add after it was refused
C24_Witness ==
  /\ sdkIsShuttingDown /\ ~flushAtShutdown
  /\ pendingAtShutdown >= 1
  /\ queue = <<>>
  /\ ticked
  /\ nextId - 1 > Len(accepted)

\* C25: under any sequence of start and stop calls there is at most one
\* periodic timer and there is one exactly when the flusher is running; a
\* start leaves the flusher running with one timer and a stop leaves it
\* stopped with none, whatever the state before (so start on a running
\* flusher and stop on a stopped one change nothing); no tick can run the
\* size-check while the flusher is stopped.
C25_SchedulerStates ==
  /\ [](/\ timers \in {0, 1}
        /\ (timers = 1) <=> isRunning
        /\ intervalHandle <=> isRunning
        /\ ~isRunning => ~ENABLED Tick)
  /\ [][(Len(trace') > Len(trace) /\ trace'[Len(trace')] = "start")
          => (/\ isRunning' /\ timers' = 1
              /\ isRunning => UNCHANGED <<isRunning, intervalHandle, timers>>)]_vars
  /\ [][(Len(trace') > Len(trace) /\ trace'[Len(trace')] = "stop")
          => (/\ ~isRunning' /\ timers' = 0
              /\ ~isRunning => UNCHANGED <<isRunning, intervalHandle, timers>>)]_vars

\* start, start, stop, stop, with a tick taken while it was running
C25_Witness ==
  /\ trace = <<"start", "start", "stop", "stop">>
  /\ ticked
  /\ ~isRunning /\ timers = 0

\* C26: while the flusher keeps running, with the timer firing and the
\* transport answering, a buffer that holds records is eventually drained,
\* whether or not it reaches the batch-size threshold.
C26_PartialBatchSent ==
  (isRunning /\ queue # <<>>) ~> (queue = <<>> \/ ~isRunning)

====
